---- MODULE Spec2Model ----
(***************************************************************************)
(* Model of project.c: a four-router network simulation.  The program      *)
(* loads, per router, a list of attached network IPs, then serves routing  *)
(* queries: it resolves the two IPs to routers, looks the query up in the  *)
(* route history, and otherwise lets the operator choose the direct link   *)
(* or assemble a path hop by hop, and logs the result in the history.      *)
(*                                                                         *)
(* C strings are modelled as sequences of one-character strings.           *)
(***************************************************************************)
EXTENDS Integers, Sequences, FiniteSets, TLC

\* ------------------------------------------------------------------------
\* Program constants
\* ------------------------------------------------------------------------
MAX_IP_LEN == 16

NUM_ROUTERS == 4

MAX_NETWORKS_PER_ROUTER == 4

\* The source sets MAX_ROUTE_HISTORY to 20.  The code is uniform in it; the
\* model scales it down so that a full history is reachable.
MAX_ROUTE_HISTORY == 2

\* ------------------------------------------------------------------------
\* Bounds of the model (inputs the environment may type)
\* ------------------------------------------------------------------------
\* Total number of networks the operator declares over all routers, under
\* Spec and under SpecLoad.
MaxTotalNetworks == 2

MaxLoadNetworks == 4

\* Number of intermediate hops the operator has accepted in one query.
MaxHops == 1

\* Number of intermediate hops of the one query of SpecHop: enough for a path
\* of 20 router ids, one digit more than LLONG_MAX has.
MaxDeepHops == 18

\* Longest string handed to validate_ip in the function-level specification.
MaxIPLen == 9

\* ------------------------------------------------------------------------
\* C library helpers
\* ------------------------------------------------------------------------
Min(a, b) == IF a <= b THEN a ELSE b

Digit == {"0", "1", "2", "3", "4", "5", "6", "7", "8", "9"}

DigitVal(c) ==
    CASE c = "0" -> 0 [] c = "1" -> 1 [] c = "2" -> 2 [] c = "3" -> 3
      [] c = "4" -> 4 [] c = "5" -> 5 [] c = "6" -> 6 [] c = "7" -> 7
      [] c = "8" -> 8 [] c = "9" -> 9

DigitChar(d) ==
    CASE d = 0 -> "0" [] d = 1 -> "1" [] d = 2 -> "2" [] d = 3 -> "3"
      [] d = 4 -> "4" [] d = 5 -> "5" [] d = 6 -> "6" [] d = 7 -> "7"
      [] d = 8 -> "8" [] d = 9 -> "9"

\* atoi on a string of digits (it is only called after validate_number).
\* The strings of the model are short enough that no int overflows.
RECURSIVE atoi(_)
atoi(str) ==
    IF str = <<>> THEN 0
    ELSE 10 * atoi(SubSeq(str, 1, Len(str) - 1)) + DigitVal(str[Len(str)])

\* strtok(.., "."): the leading delimiters are skipped, the token is the
\* longest run without a delimiter.  SkipDelims drops the leading dots.
RECURSIVE SkipDelims(_)
SkipDelims(s) ==
    IF s = <<>> \/ s[1] # "." THEN s ELSE SkipDelims(Tail(s))

RECURSIVE TokenLen(_)
TokenLen(s) ==
    IF s = <<>> \/ s[1] = "." THEN 0 ELSE 1 + TokenLen(Tail(s))

\* The sequence of tokens the successive strtok calls return.
RECURSIVE strtok_tokens(_)
strtok_tokens(s) ==
    LET t == SkipDelims(s)
        n == TokenLen(t)
    IN  IF t = <<>> THEN <<>>
        ELSE <<SubSeq(t, 1, n)>> \o strtok_tokens(SubSeq(t, n + 2, Len(t)))

\* ------------------------------------------------------------------------
\* validate_number, validate_ip
\* ------------------------------------------------------------------------
validate_number(str) ==
    /\ str # <<>>
    /\ \A i \in 1..Len(str) : str[i] \in Digit

\* The while loop of validate_ip over the tokens, token k being ptr.
RECURSIVE validate_ip_loop(_, _, _, _)
validate_ip_loop(toks, k, octet_count, dots) ==
    IF k > Len(toks)
    THEN ~(octet_count # 4 \/ dots # 3)
    ELSE IF ~validate_number(toks[k]) THEN FALSE
    ELSE IF atoi(toks[k]) < 0 \/ atoi(toks[k]) > 255 THEN FALSE
    ELSE validate_ip_loop(toks, k + 1, octet_count + 1,
                          IF k + 1 <= Len(toks) THEN dots + 1 ELSE dots)

validate_ip(ip_str) ==
    IF ip_str = <<>> THEN FALSE
    ELSE LET temp_ip == SubSeq(ip_str, 1, Min(Len(ip_str), MAX_IP_LEN - 1))
         IN  validate_ip_loop(strtok_tokens(temp_ip), 1, 0, 0)

\* ------------------------------------------------------------------------
\* find_router_by_ip, concat_router_ids, connection matrix
\* ------------------------------------------------------------------------
Routers == 1..NUM_ROUTERS

\* Mutant of connection_matrix: R4 has lost its links to R1 and R3.
connection_matrix_deadend ==
    << <<1, 1, 0, 0>>,
       <<1, 1, 1, 0>>,
       <<0, 1, 1, 0>>,
       <<0, 0, 0, 1>> >>

\* connection_matrix[i][j], rows and columns numbered from 1 (R1..R4).
connection_matrix ==
    << <<1, 1, 0, 1>>,
       <<1, 1, 1, 0>>,
       <<0, 1, 1, 1>>,
       <<1, 0, 1, 1>> >>

\* The nested scan of find_router_by_ip from router i, network j (1-based),
\* over the configuration cfg with the counts nn.
RECURSIVE find_router_scan(_, _, _, _, _)
find_router_scan(ip, nn, cfg, i, j) ==
    IF i > NUM_ROUTERS THEN 0
    ELSE IF j > nn[i] THEN find_router_scan(ip, nn, cfg, i + 1, 1)
    ELSE IF cfg[i][j] = ip THEN i
    ELSE find_router_scan(ip, nn, cfg, i, j + 1)

\* A long long is held as its decimal numeral, a sequence of digit characters
\* without leading zeros (TLC's integers are 32 bits wide): <<"1","2","4">>
\* is the value 124.  sprintf("%lld") of such a value is the numeral itself.
sprintf_lld(v) == v

\* sprintf("%d") of a non-negative int.
RECURSIVE sprintf_d(_)
sprintf_d(n) ==
    IF n < 10 THEN <<DigitChar(n)>>
    ELSE sprintf_d(n \div 10) \o <<DigitChar(n % 10)>>

LLONG_MAX ==
    <<"9", "2", "2", "3", "3", "7", "2", "0", "3", "6",
      "8", "5", "4", "7", "7", "5", "8", "0", "7">>

\* a > b for two numerals of the same length.
RECURSIVE NumeralGreater(_, _)
NumeralGreater(a, b) ==
    IF a = <<>> THEN FALSE
    ELSE IF a[1] # b[1] THEN DigitVal(a[1]) > DigitVal(b[1])
    ELSE NumeralGreater(Tail(a), Tail(b))

RECURSIVE StripZeros(_)
StripZeros(s) ==
    IF Len(s) > 1 /\ s[1] = "0" THEN StripZeros(Tail(s)) ELSE s

\* atoll on a string of digits.  A value above LLONG_MAX is not
\* representable; the C library's strtoll then yields LLONG_MAX.
atoll(str) ==
    LET v == StripZeros(str)
    IN  IF Len(v) > Len(LLONG_MAX)
           \/ (Len(v) = Len(LLONG_MAX) /\ NumeralGreater(v, LLONG_MAX))
        THEN LLONG_MAX
        ELSE v

\* Mutant of concat_router_ids: the two strings are joined the wrong way
\* round.
concat_router_ids_swapped(current_val, new_id) ==
    atoll(sprintf_d(new_id) \o sprintf_lld(current_val))

concat_router_ids(current_val, new_id) ==
    atoll(sprintf_lld(current_val) \o sprintf_d(new_id))

\* The long long 0.
Zero == <<"0">>

\* ------------------------------------------------------------------------
\* State
\* ------------------------------------------------------------------------
VARIABLES
    pc,                   \* the prompt the program is waiting at
    li, lj,               \* loop indices i, j of the loading loops (1-based)
    num_networks,         \* int num_networks[NUM_ROUTERS]
    total_networks,
    router_configs,       \* router_configs[i].ip[j]
    route_history,        \* route_history[MAX_ROUTE_HISTORY]
    intermediate_history, \* intermediate_history[MAX_ROUTE_HISTORY]
    history_count,
    continue_flag,
    source_ip, destination_ip,
    source_router, dest_router,
    current_router, route_path,
    intermediate_routers, router_index,
    next_router,          \* the answer last read at the hop prompt
    choice,
    banner,               \* which result banner the query printed
    logged,               \* "NEW ROUTE LOGGED" was printed
    shown,                \* the concatenated ids printed with the result
    established,          \* the "Path established" router sequence printed
    call_arg, call_ret    \* argument and result of a function-level call

vars == <<pc, li, lj, num_networks, total_networks, router_configs,
          route_history, intermediate_history, history_count, continue_flag,
          source_ip, destination_ip, source_router, dest_router,
          current_router, route_path, intermediate_routers, router_index,
          next_router, choice, banner, logged, shown, established,
          call_arg, call_ret>>

configVars == <<num_networks, total_networks, router_configs>>

historyVars == <<route_history, intermediate_history, history_count>>

queryVars == <<source_ip, destination_ip, source_router, dest_router>>

hopVars == <<current_router, route_path, intermediate_routers, router_index,
             next_router>>

outVars == <<banner, logged, shown, established>>

callVars == <<call_arg, call_ret>>

\* ------------------------------------------------------------------------
\* Inputs the operator may type
\* ------------------------------------------------------------------------
IP_A == <<"1", ".", "1", ".", "1", ".", "1">>

IP_B == <<"1", ".", "1", ".", "1", ".", "2">>

IP_BAD == <<"1", ".", "1", ".", "1">>

InputIPs == {IP_A, IP_B, IP_BAD}

\* Answers to an integer prompt; a non-integer answer is read as -1.
AnyCountInputs == (0 - 1)..(MAX_NETWORKS_PER_ROUTER + 1)

\* The answers of an operator who attaches at most one network to a router.
CountInputs == {0 - 1, 0, 1, MAX_NETWORKS_PER_ROUTER + 1}

HopInputs == (0 - 1)..(NUM_ROUTERS + 1)

EmptyString == <<>>

\* Mutant of find_router_by_ip: the routers are scanned from the last one
\* down, so the last match wins.
RECURSIVE find_router_scan_down(_, _, _, _, _)
find_router_scan_down(ip, nn, cfg, i, j) ==
    IF i < 1 THEN 0
    ELSE IF j > nn[i] THEN find_router_scan_down(ip, nn, cfg, i - 1, 1)
    ELSE IF cfg[i][j] = ip THEN i
    ELSE find_router_scan_down(ip, nn, cfg, i, j + 1)

find_router_by_ip_last(ip, nn) ==
    find_router_scan_down(ip, nn, router_configs, NUM_ROUTERS, 1)

\* Mutant of find_router_by_ip: the 0-based index is returned, not i + 1.
find_router_by_ip_index(ip, nn) ==
    IF find_router_scan(ip, nn, router_configs, 1, 1) = 0 THEN 0
    ELSE find_router_scan(ip, nn, router_configs, 1, 1) - 1

\* Mutant of find_router_by_ip: after the loops the last router is returned
\* instead of 0.
find_router_by_ip_fallthrough(ip, nn) ==
    IF find_router_scan(ip, nn, router_configs, 1, 1) = 0 THEN NUM_ROUTERS
    ELSE find_router_scan(ip, nn, router_configs, 1, 1)

find_router_by_ip(ip, nn) == find_router_scan(ip, nn, router_configs, 1, 1)

\* ------------------------------------------------------------------------
\* Initial state: the globals are zero-initialised, run_routing_simulation
\* is at its first prompt.
\* ------------------------------------------------------------------------
NoHops == [k \in 1..NUM_ROUTERS |-> 0]

InitProgram ==
    /\ pc = "count"
    /\ li = 1
    /\ lj = 1
    /\ num_networks = [i \in Routers |-> 0]
    /\ total_networks = 0
    /\ router_configs =
           [i \in Routers |-> [j \in 1..MAX_NETWORKS_PER_ROUTER |-> EmptyString]]
    /\ route_history = [k \in 1..MAX_ROUTE_HISTORY |-> EmptyString]
    /\ intermediate_history = [k \in 1..MAX_ROUTE_HISTORY |-> Zero]
    /\ history_count = 0
    /\ continue_flag = 0
    /\ source_ip = EmptyString
    /\ destination_ip = EmptyString
    /\ source_router = 0
    /\ dest_router = 0
    /\ current_router = 0
    /\ route_path = Zero
    /\ intermediate_routers = NoHops
    /\ router_index = 0
    /\ next_router = 0 - 1
    /\ choice = 0
    /\ banner = "none"
    /\ logged = FALSE
    /\ shown = Zero
    /\ established = <<>>

Init ==
    /\ InitProgram
    /\ call_arg = EmptyString
    /\ call_ret = "none"

\* ------------------------------------------------------------------------
\* 1. Loading the configuration
\* ------------------------------------------------------------------------
\* Mutant of NetworkCountRejected: the test for a negative count is missing.
NetworkCountRejected_upper(n) == n > MAX_NETWORKS_PER_ROUTER

\* The do-while condition that re-asks for the number of networks.
NetworkCountRejected(n) == n < 0 \/ n > MAX_NETWORKS_PER_ROUTER

\* The (i, j) for which the loading loops ask an IP, after (i, j) in order.
LaterSlots(nn, i, j) ==
    {s \in Routers \X (1..MAX_NETWORKS_PER_ROUTER) :
        /\ s[2] <= nn[s[1]]
        /\ (s[1] > i \/ (s[1] = i /\ s[2] > j))}

NextSlot(nn, i, j) ==
    CHOOSE s \in LaterSlots(nn, i, j) :
        \A t \in LaterSlots(nn, i, j) :
            s[1] < t[1] \/ (s[1] = t[1] /\ s[2] <= t[2])

\* The body of the routing loop starts afresh: the locals of the previous
\* iteration are dead, source_router and dest_router are set to 0.
FreshQuery ==
    /\ source_ip' = EmptyString
    /\ destination_ip' = EmptyString
    /\ source_router' = 0
    /\ dest_router' = 0
    /\ current_router' = 0
    /\ route_path' = Zero
    /\ intermediate_routers' = NoHops
    /\ router_index' = 0
    /\ next_router' = 0 - 1
    /\ choice' = 0
    /\ banner' = "none"
    /\ logged' = FALSE
    /\ shown' = Zero
    /\ established' = <<>>

\* The guard of the routing loop.
RoutingLoopGuard(flag, count) == flag = 0 /\ count < MAX_ROUTE_HISTORY

\* "How many networks are joined to router i": n is the answer.
ReadNumNetworks(n) ==
    /\ pc = "count"
    /\ num_networks' = [num_networks EXCEPT ![li] = n]
    /\ IF NetworkCountRejected(n)
       THEN UNCHANGED <<pc, li, lj, total_networks>>
       ELSE /\ total_networks' = total_networks + n
            /\ IF li < NUM_ROUTERS
               THEN /\ li' = li + 1
                    /\ UNCHANGED <<pc, lj>>
               ELSE IF LaterSlots(num_networks', 1, 0) # {}
               THEN /\ li' = NextSlot(num_networks', 1, 0)[1]
                    /\ lj' = NextSlot(num_networks', 1, 0)[2]
                    /\ pc' = "ip"
               ELSE /\ pc' = IF RoutingLoopGuard(0, history_count)
                             THEN "source" ELSE "ended"
                    /\ UNCHANGED <<li, lj>>
    /\ UNCHANGED <<router_configs, historyVars, continue_flag, queryVars,
                   hopVars, choice, outVars, callVars>>

\* "Enter router i Network IP address j": s is the answer.
ReadNetworkIP(s) ==
    /\ pc = "ip"
    /\ IF ~validate_ip(s)
       THEN UNCHANGED <<pc, li, lj, router_configs>>
       ELSE /\ router_configs' = [router_configs EXCEPT ![li][lj] = s]
            /\ IF LaterSlots(num_networks, li, lj) # {}
               THEN /\ li' = NextSlot(num_networks, li, lj)[1]
                    /\ lj' = NextSlot(num_networks, li, lj)[2]
                    /\ UNCHANGED pc
               ELSE /\ pc' = IF RoutingLoopGuard(0, history_count)
                             THEN "source" ELSE "ended"
                    /\ UNCHANGED <<li, lj>>
    /\ UNCHANGED <<num_networks, total_networks, historyVars, continue_flag,
                   queryVars, hopVars, choice, outVars, callVars>>

\* ------------------------------------------------------------------------
\* 2. The routing loop
\* ------------------------------------------------------------------------
\* sprintf(current_route_key, "%s*%s", source_ip, destination_ip)
current_route_key(src, dst) == src \o <<"*">> \o dst

\* The history scan from entry l2 (1-based); 0 stands for the code's -1.
RECURSIVE history_scan(_, _, _, _)
history_scan(hist, count, key, l2) ==
    IF l2 > count THEN 0
    ELSE IF hist[l2] = key THEN l2
    ELSE history_scan(hist, count, key, l2 + 1)

\* Mutant of final_history_index: the scan starts one entry too late.
final_history_index_late(key) ==
    history_scan(route_history, history_count, key, 2)

\* Mutant of final_history_index: the scan stops one entry too early.
final_history_index_short(key) ==
    history_scan(route_history, history_count - 1, key, 1)

final_history_index(key) == history_scan(route_history, history_count, key, 1)

\* Mutant of Linked: the test of the matrix entry lets a 0 through.
Linked_unchecked(a, b) == connection_matrix[a][b] >= 0

Linked(a, b) == connection_matrix[a][b] = 1

\* "Enter source IP address": s is the answer.
ReadSourceIP(s) ==
    /\ pc = "source"
    /\ source_ip' = s
    /\ IF ~validate_ip(s)
       THEN /\ source_router' = 0
            /\ UNCHANGED pc
       ELSE /\ source_router' = find_router_by_ip(s, num_networks)
            /\ pc' = IF source_router' = 0 THEN "source" ELSE "dest"
    /\ UNCHANGED <<li, lj, configVars, historyVars, continue_flag,
                   destination_ip, dest_router, hopVars, choice, outVars,
                   callVars>>

\* The declarations that open the manual route definition.
ManualInit ==
    /\ banner' = "manual"
    /\ intermediate_routers' = NoHops
    /\ router_index' = 0
    /\ next_router' = 0 - 1
    /\ current_router' = source_router
    /\ pc' = "hop"

\* "Enter Destination IP address": s is the answer.  An owned destination
\* leads on to the history check and to the start of the route definition.
ReadDestIP(s) ==
    /\ pc = "dest"
    /\ destination_ip' = s
    /\ UNCHANGED <<li, lj, configVars, historyVars, continue_flag, source_ip,
                   source_router, choice, logged, established, callVars>>
    /\ IF ~validate_ip(s)
       THEN /\ dest_router' = 0
            /\ UNCHANGED <<pc, hopVars, banner, shown>>
       ELSE /\ dest_router' = find_router_by_ip(s, num_networks)
            /\ IF dest_router' = 0
               THEN UNCHANGED <<pc, hopVars, banner, shown>>
               ELSE IF final_history_index(current_route_key(source_ip, s)) # 0
               THEN /\ banner' = "history"
                    /\ shown' = intermediate_history[
                           final_history_index(current_route_key(source_ip, s))]
                    /\ pc' = "cont"
                    /\ UNCHANGED hopVars
               ELSE /\ route_path' = concat_router_ids(Zero, source_router)
                    /\ UNCHANGED shown
                    /\ IF Linked(source_router, dest_router')
                       THEN /\ current_router' = source_router
                            /\ pc' = "shortcut"
                            /\ UNCHANGED <<intermediate_routers, router_index,
                                           next_router, banner>>
                       ELSE ManualInit

\* Mutant of RouteComplete: the entry is written at the last filled
\* position instead of the first free one.
RouteComplete_overwrite(path, inter, idx) ==
    /\ pc' = "cont"
    /\ IF history_count < MAX_ROUTE_HISTORY
       THEN /\ route_history' =
                [route_history EXCEPT ![IF history_count = 0 THEN 1
                                        ELSE history_count] =
                    current_route_key(source_ip, destination_ip)]
            /\ intermediate_history' =
                [intermediate_history EXCEPT ![IF history_count = 0 THEN 1
                                               ELSE history_count] = path]
            /\ logged' = TRUE
            /\ shown' = path
            /\ established' =
                <<source_router>> \o SubSeq(inter, 1, idx) \o <<dest_router>>
            /\ history_count' = history_count + 1
       ELSE UNCHANGED <<historyVars, logged, shown, established>>

\* Section 3 of the loop body, reached with the path and with the
\* intermediate routers inter[1..idx] to print.
RouteComplete(path, inter, idx) ==
    /\ pc' = "cont"
    /\ IF history_count < MAX_ROUTE_HISTORY
       THEN /\ route_history' =
                [route_history EXCEPT ![history_count + 1] =
                    current_route_key(source_ip, destination_ip)]
            /\ intermediate_history' =
                [intermediate_history EXCEPT ![history_count + 1] = path]
            /\ logged' = TRUE
            /\ shown' = path
            /\ established' =
                <<source_router>> \o SubSeq(inter, 1, idx) \o <<dest_router>>
            /\ history_count' = history_count + 1
       ELSE UNCHANGED <<historyVars, logged, shown, established>>

\* What the skipped declarations of intermediate_routers and router_index
\* can hold at route_complete after the goto: nothing, or one stale hop.
IndeterminateHops ==
    {NoHops} \cup {[NoHops EXCEPT ![1] = r] : r \in Routers}

HopCount(inter) == IF inter[1] = 0 THEN 0 ELSE 1

\* "Do you want to choose the direct path": c is the answer.
ReadChoice(c) ==
    /\ pc = "shortcut"
    /\ choice' = c
    /\ UNCHANGED <<li, lj, configVars, continue_flag, queryVars, callVars>>
    /\ IF c = 1
       THEN /\ route_path' = concat_router_ids(route_path, dest_router)
            /\ banner' = "direct"
            /\ \E junk \in IndeterminateHops :
                  /\ intermediate_routers' = junk
                  /\ router_index' = HopCount(junk)
                  /\ RouteComplete(route_path', junk, HopCount(junk))
            /\ UNCHANGED <<current_router, next_router>>
       ELSE /\ ManualInit
            /\ UNCHANGED <<route_path, historyVars, logged, shown, established>>

\* The while (current_router != dest_router) test that a continue, or the
\* end of the loop body, reaches with the current router cur.
HopLoopTest(cur, path, inter, idx) ==
    IF cur # dest_router
    THEN UNCHANGED <<pc, historyVars, logged, shown, established>>
    ELSE RouteComplete(path, inter, idx)

\* Mutant of HopRejected: the destination is appended before the link to it
\* is tested.
HopRejected_appends ==
    /\ route_path' = concat_router_ids(route_path, dest_router)
    /\ UNCHANGED <<current_router, intermediate_routers, router_index>>
    /\ HopLoopTest(current_router, route_path', intermediate_routers,
                   router_index)

\* A proposal that is turned down: nothing is recorded, the loop test follows.
HopRejected ==
    /\ UNCHANGED <<current_router, route_path, intermediate_routers,
                   router_index>>
    /\ HopLoopTest(current_router, route_path, intermediate_routers,
                   router_index)

\* The destination is appended and the loop is left by break.
HopFinal ==
    /\ route_path' = concat_router_ids(route_path, dest_router)
    /\ UNCHANGED <<current_router, intermediate_routers, router_index>>
    /\ RouteComplete(route_path', intermediate_routers, router_index)

\* What the store intermediate_routers[router_index++] = next_router can do
\* once router_index has reached NUM_ROUTERS and the element lies past the
\* end of the array: "beyond" lands in memory no other variable occupies and
\* is read back by the print loop, "route_path" lands on the path
\* accumulator, which then holds the stored router id.
OverrunOutcomes == {"beyond", "route_path"}

\* intermediate_routers after the store of n at the 0-based index idx.
StoreHop(inter, idx, n) ==
    [k \in 1..(IF idx + 1 > Len(inter) THEN idx + 1 ELSE Len(inter)) |->
        IF k = idx + 1 THEN n ELSE inter[k]]

\* The in-range, non-destination proposal n is recorded as the next hop.
HopAdvance(n) ==
    /\ intermediate_routers' = StoreHop(intermediate_routers, router_index, n)
    /\ router_index' = router_index + 1
    /\ IF router_index < NUM_ROUTERS
       THEN route_path' = concat_router_ids(route_path, n)
       ELSE \E o \in OverrunOutcomes :
               route_path' = concat_router_ids(
                   IF o = "route_path" THEN sprintf_d(n) ELSE route_path, n)
    /\ current_router' = n
    /\ HopLoopTest(n, route_path', intermediate_routers', router_index')

ValidRouterId(n) == ~(n < 1 \/ n > NUM_ROUTERS)

\* Mutant of ReadNextRouter: a proposal of the destination is taken without
\* the test of the link to it that a finalize request gets.
ReadNextRouter_destunchecked(n) ==
    /\ pc = "hop"
    /\ next_router' = n
    /\ UNCHANGED <<li, lj, configVars, continue_flag, queryVars, choice,
                   banner, callVars>>
    /\ IF n = 0
       THEN IF Linked(current_router, dest_router)
            THEN HopFinal ELSE HopRejected
       ELSE IF ~ValidRouterId(n)
       THEN HopRejected
       ELSE IF n = dest_router
       THEN HopFinal
       ELSE IF Linked(current_router, n)
       THEN HopAdvance(n) ELSE HopRejected

\* "Enter next intermediate router (1-4, or 0 to finalize)": n is the answer.
ReadNextRouter(n) ==
    /\ pc = "hop"
    /\ next_router' = n
    /\ UNCHANGED <<li, lj, configVars, continue_flag, queryVars, choice,
                   banner, callVars>>
    /\ IF n = 0
       THEN IF Linked(current_router, dest_router)
            THEN HopFinal ELSE HopRejected
       ELSE IF ~ValidRouterId(n)
       THEN HopRejected
       ELSE IF n = dest_router
       THEN IF Linked(current_router, dest_router)
            THEN HopFinal ELSE HopRejected
       ELSE IF Linked(current_router, n)
       THEN HopAdvance(n) ELSE HopRejected

\* "Do you want to continue routing? (0=Yes, 1=No)": c is the answer, a
\* non-integer answer being read as 1.  The locals of the loop body go out
\* of scope when the loop is left.
ReadContinue(c) ==
    /\ pc = "cont"
    /\ continue_flag' = c
    /\ UNCHANGED <<li, lj, configVars, historyVars, callVars>>
    /\ IF RoutingLoopGuard(c, history_count)
       THEN /\ pc' = "source"
            /\ FreshQuery
       ELSE /\ pc' = "ended"
            /\ FreshQuery

\* ------------------------------------------------------------------------
\* Specifications.  The bounds of the model restrict what the operator
\* types: the networks declared in total, the hops taken in one query.
\* ------------------------------------------------------------------------
WithinTotal(n, max) == n < 0 \/ total_networks + n <= max

WithinHops(n) ==
    /\ pc = "hop"
    /\ (n >= 1 /\ n <= NUM_ROUTERS /\ n # dest_router
            /\ connection_matrix[current_router][n] = 1)
        => router_index < MaxHops

\* Spec: the operator attaches at most one network to a router and then
\* asks any number of queries.
Next ==
    \/ \E n \in CountInputs :
          WithinTotal(n, MaxTotalNetworks) /\ ReadNumNetworks(n)
    \/ \E s \in InputIPs : ReadNetworkIP(s)
    \/ \E s \in InputIPs : ReadSourceIP(s)
    \/ \E s \in InputIPs : ReadDestIP(s)
    \/ \E c \in {0, 1} : ReadChoice(c)
    \/ \E n \in HopInputs : WithinHops(n) /\ ReadNextRouter(n)
    \/ \E c \in {0, 1} : ReadContinue(c)

Spec == Init /\ [][Next]_vars

\* SpecLoad: the operator attaches any number of networks to a router, asks
\* one query and stops.
NextLoad ==
    \/ \E n \in AnyCountInputs :
          WithinTotal(n, MaxLoadNetworks) /\ ReadNumNetworks(n)
    \/ \E s \in InputIPs : ReadNetworkIP(s)
    \/ \E s \in InputIPs : ReadSourceIP(s)
    \/ \E s \in InputIPs : ReadDestIP(s)
    \/ \E c \in {0, 1} : ReadChoice(c)
    \/ \E n \in HopInputs : WithinHops(n) /\ ReadNextRouter(n)
    \/ ReadContinue(1)

SpecLoad == Init /\ [][NextLoad]_vars

\* The hops of SpecHop: finalize, or move to router 2.
DeepHopInputs == {0, 2}

WithinDeepHops(n) ==
    /\ pc = "hop"
    /\ (n >= 1 /\ n <= NUM_ROUTERS /\ n # dest_router
            /\ connection_matrix[current_router][n] = 1)
        => router_index < MaxDeepHops

\* SpecHop: the operator attaches at most one network to a router, asks one
\* query and assembles a path of up to MaxDeepHops hops.
NextHop ==
    \/ \E n \in CountInputs :
          WithinTotal(n, MaxTotalNetworks) /\ ReadNumNetworks(n)
    \/ \E s \in InputIPs : ReadNetworkIP(s)
    \/ \E s \in InputIPs : ReadSourceIP(s)
    \/ \E s \in InputIPs : ReadDestIP(s)
    \/ \E c \in {0, 1} : ReadChoice(c)
    \/ \E n \in DeepHopInputs : WithinDeepHops(n) /\ ReadNextRouter(n)
    \/ ReadContinue(1)

SpecHop == Init /\ [][NextHop]_vars

\* ------------------------------------------------------------------------
\* Function-level specification of validate_ip: the argument is any string
\* of up to MaxIPLen characters over IPAlphabet, the action calls the
\* function on it.
\* ------------------------------------------------------------------------
IPAlphabet == {"1", "9", ".", "x"}

IPStrings == UNION {[1..n -> IPAlphabet] : n \in 0..MaxIPLen}

InitIP ==
    /\ InitProgram
    /\ call_arg \in IPStrings
    /\ call_ret = "none"

CallValidateIp ==
    /\ call_ret = "none"
    /\ call_ret' = IF validate_ip(call_arg) THEN "true" ELSE "false"
    /\ UNCHANGED <<pc, li, lj, configVars, historyVars, continue_flag,
                   queryVars, hopVars, choice, outVars, call_arg>>

NextIP == CallValidateIp

SpecIP == InitIP /\ [][NextIP]_vars

\* ------------------------------------------------------------------------
\* Properties
\* ------------------------------------------------------------------------
\* The program is past loading and before "Simulation Ended".
Serving == pc \in {"source", "dest", "shortcut", "hop", "cont"}

\* The router ids whose digits make up a concatenated path.
PathIds(path) == [k \in 1..Len(path) |-> DigitVal(path[k])]

\* The routers whose registered networks hold the string ip.
Owners(ip) ==
    {i \in Routers :
        \E j \in 1..MAX_NETWORKS_PER_ROUTER :
            j <= num_networks[i] /\ router_configs[i][j] = ip}

C3_HistoryAppendOnly ==
    [][ /\ history_count' >= history_count
        /\ \A i \in 1..history_count :
              /\ route_history'[i] = route_history[i]
              /\ intermediate_history'[i] = intermediate_history[i]
      ]_vars

\* C3 witness: a second entry has been stored behind a first one.
C3_Witness ==
    /\ history_count = 2
    /\ route_history[1] # route_history[2]
    /\ pc = "cont"
    /\ logged

\* C4: with the history at its capacity the program still takes queries: it
\* ends only when the operator answers the continue prompt with "no".
C4_FullHistoryStillServes == pc = "ended" => continue_flag # 0

\* C5: manual hop assembly ends only at a step that appends the destination
\* to the path; whatever the two routers are, a rejected proposal is
\* followed by another hop request.
C5_EndsOnlyAtDestination ==
    [][ (pc = "hop" /\ pc' # "hop") =>
            route_path' = route_path \o <<DigitChar(dest_router)>>
      ]_vars

\* C6: the shortcut is offered exactly when the source router is linked to
\* the destination router, and accepting it resolves the query at once, with
\* no hop request, to the path of the two ids, source then destination.
C6_ShortcutPath ==
    [][ /\ (pc = "dest" /\ pc' \in {"shortcut", "hop"}) =>
              (pc' = "shortcut" <=>
                  connection_matrix[source_router'][dest_router'] = 1)
        /\ (pc = "shortcut" /\ choice' = 1) =>
              /\ pc' = "cont"
              /\ banner' = "direct"
              /\ route_path' =
                     <<DigitChar(source_router), DigitChar(dest_router)>>
              /\ shown' = route_path'
      ]_vars

\* C6 witness: an accepted shortcut between two different routers.
C6_Witness ==
    /\ pc = "cont"
    /\ banner = "direct"
    /\ choice = 1
    /\ source_router # dest_router
    /\ Len(route_path) = 2

\* The pieces of s between its dots, the empty ones included.
RECURSIVE SplitAtDots(_)
SplitAtDots(s) ==
    LET n == TokenLen(s)
    IN  IF n = Len(s) THEN <<s>>
        ELSE <<SubSeq(s, 1, n)>> \o SplitAtDots(SubSeq(s, n + 2, Len(s)))

\* s is four non-empty all-digit pieces in [0, 255] separated by three dots.
DottedQuad(s) ==
    LET parts == SplitAtDots(s)
    IN  /\ Len(parts) = 4
        /\ \A k \in 1..4 :
              /\ parts[k] # <<>>
              /\ \A i \in 1..Len(parts[k]) : parts[k][i] \in Digit
              /\ atoi(parts[k]) <= 255

\* C7: validate_ip accepts a string if and only if it is four non-empty
\* all-digit tokens in [0, 255] separated by exactly three single dots.
C7_ValidateIffDottedQuad ==
    call_ret # "none" => (call_ret = "true" <=> DottedQuad(call_arg))

C9_FindRouter ==
    /\ [](Serving =>
            \A ip \in InputIPs :
                /\ find_router_by_ip(ip, num_networks) = 0 <=> Owners(ip) = {}
                /\ Owners(ip) # {} =>
                      /\ find_router_by_ip(ip, num_networks) \in Owners(ip)
                      /\ \A r \in Owners(ip) :
                            find_router_by_ip(ip, num_networks) <= r)
    /\ [][ (Serving /\ Serving') =>
              /\ num_networks' = num_networks
              /\ \A i \in Routers : \A j \in 1..MAX_NETWORKS_PER_ROUTER :
                    j <= num_networks[i] =>
                        router_configs'[i][j] = router_configs[i][j]
         ]_vars

\* C9 witness: a query is served with a string registered as the second
\* network of a router and under a later router too, and with a string that
\* is registered nowhere.
C9_Witness ==
    /\ Serving
    /\ \E i \in Routers :
          /\ num_networks[i] >= 2
          /\ router_configs[i][2] # router_configs[i][1]
          /\ find_router_by_ip(router_configs[i][2], num_networks) = i
          /\ \E k \in Owners(router_configs[i][2]) : k > i
    /\ \E ip \in InputIPs : find_router_by_ip(ip, num_networks) = 0
    /\ source_router # 0

C11_UnownedIpNoEffect ==
    [][ /\ (pc = "source" /\ validate_ip(source_ip')
                /\ Owners(source_ip') = {}) =>
              /\ pc' = "source"
              /\ source_router' = 0
              /\ UNCHANGED <<configVars, historyVars, hopVars, outVars>>
        /\ (pc = "dest" /\ validate_ip(destination_ip')
                /\ Owners(destination_ip') = {}) =>
              /\ pc' = "dest"
              /\ dest_router' = 0
              /\ UNCHANGED <<configVars, historyVars, hopVars, outVars,
                             source_ip, source_router>>
      ]_vars

\* C11 witness: with a route in the history, a well-formed destination IP
\* that no router owns has been entered and the prompt is up again.
C11_Witness ==
    /\ pc = "dest"
    /\ validate_ip(destination_ip)
    /\ Owners(destination_ip) = {}
    /\ dest_router = 0
    /\ source_router # 0
    /\ history_count >= 1

\* The answers to the hop prompt that are to be rejected: an id outside
\* [1, NUM_ROUTERS], a router other than the destination that the current
\* router is not linked to, and the destination or a finalize request while
\* the current router is not linked to the destination.
RejectedProposal(cur, n) ==
    \/ n # 0 /\ (n < 1 \/ n > NUM_ROUTERS)
    \/ n \in Routers /\ n # dest_router /\ connection_matrix[cur][n] # 1
    \/ n = dest_router /\ connection_matrix[cur][dest_router] # 1
    \/ n = 0 /\ connection_matrix[cur][dest_router] # 1

\* C12: a rejected hop proposal leaves the current router, the accumulated
\* path and the recorded intermediate routers exactly as they were.
C12_RejectedHopNoEffect ==
    [][ (pc = "hop" /\ RejectedProposal(current_router, next_router')) =>
            /\ current_router' = current_router
            /\ route_path' = route_path
            /\ router_index' = router_index
            /\ intermediate_routers' = intermediate_routers
      ]_vars

\* C12 witness: after one accepted hop, a router the current one is not
\* linked to has been proposed and the hop prompt is up again.
C12_Witness ==
    /\ pc = "hop"
    /\ router_index = 1
    /\ next_router \in Routers
    /\ next_router # dest_router
    /\ connection_matrix[current_router][next_router] = 0
    /\ Len(route_path) = 2

\* C13: for a freshly resolved query, the router sequence reported as "Path
\* established" (source, recorded intermediate routers, destination) is the
\* sequence of ids concatenated into the path that is stored and printed.
C13_ReportedIsStored ==
    (pc = "cont" /\ logged) =>
        /\ intermediate_history[history_count] = shown
        /\ established = PathIds(shown)

\* C14: the entry count stays within [0, MAX_ROUTE_HISTORY], the keys of the
\* stored entries are pairwise distinct, and a query answered from the
\* history logs no entry.
C14_DistinctKeys ==
    /\ history_count >= 0
    /\ history_count <= MAX_ROUTE_HISTORY
    /\ \A i, j \in 1..MAX_ROUTE_HISTORY :
          (i < j /\ j <= history_count) => route_history[i] # route_history[j]
    /\ (pc = "cont" /\ banner = "history") => ~logged

\* C14 witness: the query just answered from the history is the one whose
\* first resolution created the only entry.
C14_Witness ==
    /\ pc = "cont"
    /\ banner = "history"
    /\ ~logged
    /\ history_count = 1
    /\ route_history[1] = source_ip \o <<"*">> \o destination_ip
    /\ source_router # dest_router

\* C17: the number of intermediate routers recorded for one resolution never
\* exceeds NUM_ROUTERS, the size of intermediate_routers, whatever sequence
\* of accepted hops the operator proposes.
C17_HopsWithinArray == router_index <= NUM_ROUTERS

\* The decimal numeral made of the router ids of a path, source first.
RECURSIVE IdsNumeral(_)
IdsNumeral(ids) ==
    IF ids = <<>> THEN <<>>
    ELSE sprintf_d(Head(ids)) \o IdsNumeral(Tail(ids))

\* C15: the path that manual assembly stores is the integer whose decimal
\* digits are the router ids of the path, source first, accepted hops in
\* order, destination last, whatever the length of the path.
C15_EncodedIsConcatenation ==
    (pc = "cont" /\ banner = "manual" /\ logged
        /\ source_router # dest_router) =>
        shown = IdsNumeral(<<source_router>>
                           \o SubSeq(intermediate_routers, 1, router_index)
                           \o <<dest_router>>)

\* C15, paths short enough for the array of hops: the stored integer is the
\* concatenation.
C15_ShortPathsEncoded ==
    (router_index <= NUM_ROUTERS) => C15_EncodedIsConcatenation

\* C16: in manual hop assembly a proposal of a router that is linked to the
\* current one and is not the destination is always accepted and leaves the
\* resolution running, and the resolution ends only on a finalize request or
\* a proposal of the destination made while the current router is linked to
\* the destination.
C16_EndsOnlyByFinalHop ==
    [][ pc = "hop" =>
          /\ (/\ next_router' \in Routers
              /\ next_router' # dest_router
              /\ connection_matrix[current_router][next_router'] = 1) =>
                  /\ pc' = "hop"
                  /\ current_router' = next_router'
                  /\ router_index' = router_index + 1
          /\ pc' # "hop" =>
                  /\ next_router' \in {0, dest_router}
                  /\ connection_matrix[current_router][dest_router] = 1
      ]_vars

\* C18: at the hop prompt a finalize request (0) and a proposal of the
\* destination router have one and the same effect, fixed by the current
\* router and the path alone: if the current router is linked to the
\* destination the destination is appended and the resolution ends with
\* that path, otherwise the answer is rejected, the prompt is up again and
\* the route, the history and the printed results are as before.
C18_FinalizeIsDestProposal ==
    [][ (pc = "hop" /\ next_router' \in {0, dest_router}) =>
          IF connection_matrix[current_router][dest_router] = 1
          THEN /\ pc' = "cont"
               /\ route_path' = route_path \o <<DigitChar(dest_router)>>
               /\ UNCHANGED <<current_router, router_index,
                              intermediate_routers>>
               /\ logged' => /\ shown' = route_path'
                             /\ intermediate_history'[history_count'] =
                                    route_path'
          ELSE /\ pc' = "hop"
               /\ UNCHANGED <<current_router, route_path, router_index,
                              intermediate_routers, historyVars, outVars>>
      ]_vars

\* C18 witness: after one accepted hop the destination itself was proposed
\* from a router linked to it, and the resolution has ended.
C18_Witness ==
    /\ pc = "cont"
    /\ banner = "manual"
    /\ router_index = 1
    /\ next_router = dest_router
    /\ source_router # dest_router
    /\ Len(route_path) = 3

\* The routers that k or fewer accepted hops lead to from the routers of S.
RECURSIVE LinkClosure(_, _)
LinkClosure(S, k) ==
    IF k = 0 THEN S
    ELSE LinkClosure(
             S \cup {b \in Routers :
                        \E a \in S : connection_matrix[a][b] = 1},
             k - 1)

\* C19: manual hop assembly has no dead end: whenever the hop prompt is up,
\* the destination router can be reached from the current router through
\* links of the connection matrix, so that some sequence of acceptable
\* proposals ends in an accepted finalize request.
C19_NoDeadEnd ==
    pc = "hop" =>
        \E k \in 0..(NUM_ROUTERS - 1) :
            \E r \in LinkClosure({current_router}, k) :
                connection_matrix[r][dest_router] = 1

\* C19 witness: the hop prompt is up after an accepted hop, at a router that
\* is not linked to the destination.
C19_Witness ==
    /\ pc = "hop"
    /\ router_index = 1
    /\ current_router # source_router
    /\ connection_matrix[current_router][dest_router] = 0

====
